---- MODULE Spec2Model ----
(***************************************************************************)
(* Model of plugins/watermark.py: the Telegram handler                     *)
(* handle_video_with_watermarks and ensure_default_watermarks.             *)
(*                                                                         *)
(* The handler is a coroutine on a single cooperative event loop.  It can  *)
(* be suspended only at an `await` of the transport (reply_text,           *)
(* download, edit_text, reply_video); everything between two such awaits,  *)
(* including the blocking calls urlretrieve, ffmpeg.probe and ffmpeg run,  *)
(* executes without any other job's task running.  One action of the model *)
(* is therefore: the completion of the pending await (with one of the      *)
(* outcomes the transport can produce) followed by the synchronous code up *)
(* to the next await, or up to the end of the handler (`finally` included).*)
(* pc[j] names the await job j is suspended at.                            *)
(***************************************************************************)
EXTENDS Integers, Sequences, FiniteSets, TLC

\* ------------------------------------------------------------------ bounds
\* Number of handler tasks that may be in flight on the event loop.
NumJobs == 2
\* The declared dimensions SpecJob samples: k*WidthStep x k*HeightStep, k in 1..GridSize.
GridSize == 16
WidthStep == 131
HeightStep == 97

\* ------------------------------------------------------- program constants
\* max(50, ...) at line 147, max(18, ...) at line 167, the probe fallbacks
DEFAULT_WIDTH == 720
DEFAULT_HEIGHT == 480
MIN_IMAGE_WIDTH == 50
MIN_FONT_SIZE == 18
\* video_width * 0.1 and video_height * 0.03, as exact fractions
IMAGE_SCALE_NUM == 1
IMAGE_SCALE_DEN == 10
FONT_SCALE_NUM == 3
FONT_SCALE_DEN == 100

Jobs == 1..NumJobs

\* ------------------------------------------------------------- file names
\* A file name inside ./downloads/ is pre copies of "watermarked_", then stem,
\* then "." ext when ext is not empty.  uid is the job for a name the transport
\* generated for a medium that carries no file_name, 0 for a name the sender chose.
MkName(pre, stem, ext, uid) == [pre |-> pre, stem |-> stem, ext |-> ext, uid |-> uid]
NoName == MkName(0, "", "", 0)
NameA == MkName(0, "a", "mp4", 0)
NameWatermarkedA == MkName(1, "a", "mp4", 0)
NameUpperMkv == MkName(0, "B", "MKV", 0)
NameNoExt == MkName(0, "a", "", 0)
NameNotes == MkName(0, "notes", "txt", 0)
DEFAULT_IMAGE_WATERMARK_PATH == MkName(0, "default_watermark_image", "png", 0)
GeneratedName(j) == MkName(0, "video", "mp4", j)

SenderNames == {NameA, NameWatermarkedA, NameUpperMkv, NameNoExt, NameNotes, DEFAULT_IMAGE_WATERMARK_PATH}

video_extensions == {"mp4", "mkv", "avi", "mov", "webm", "flv", "wmv", "m4v", "3gp", "ts", "mts"}

\* str.lower() on the extensions the model offers
Lower(s) == IF s = "MKV" THEN "mkv" ELSE IF s = "MP4" THEN "mp4" ELSE s

\* os.path.splitext(file_name.lower())[1] in video_extensions
IsVideoByExtension(name) == name # NoName /\ Lower(name.ext) \in video_extensions

\* message.download(file_name="./downloads/"): the medium's own file name, or a
\* generated one when it has none
DownloadPath(j, name) == IF name = NoName THEN GeneratedName(j) ELSE name

\* f"./downloads/watermarked_{base_name}.mp4" with base_name = basename.rsplit('.', 1)[0]
OutputPath(inputPath) == MkName(inputPath.pre + 1, inputPath.stem, "mp4", inputPath.uid)

InputPaths == SenderNames \cup {GeneratedName(j) : j \in Jobs}
Paths == InputPaths \cup {OutputPath(p) : p \in InputPaths} \cup {DEFAULT_IMAGE_WATERMARK_PATH}

\* ---------------------------------------------------------- pure functions
Max(a, b) == IF a >= b THEN a ELSE b

\* int(x) of a non-negative float num*v/den: truncation
Trunc(v, num, den) == (v * num) \div den

\* Python round() of num*v/den: to nearest, ties to even
Round(v, num, den) ==
    LET q == (v * num) \div den
        r == (v * num) % den
    IN  IF 2 * r > den THEN q + 1
        ELSE IF 2 * r < den THEN q
        ELSE IF q % 2 = 0 THEN q ELSE q + 1

\* target_width = max(50, int(video_width * 0.1))
TargetWidthRounded(video_width) == Max(MIN_IMAGE_WIDTH, Round(video_width, IMAGE_SCALE_NUM, IMAGE_SCALE_DEN))
TargetWidth(video_width) == Max(MIN_IMAGE_WIDTH, Trunc(video_width, IMAGE_SCALE_NUM, IMAGE_SCALE_DEN))

\* dynamic_font_size = max(18, int(video_height * 0.03))
DynamicFontSizeRounded(video_height) == Max(MIN_FONT_SIZE, Round(video_height, FONT_SCALE_NUM, FONT_SCALE_DEN))
DynamicFontSize(video_height) == Max(MIN_FONT_SIZE, Trunc(video_height, FONT_SCALE_NUM, FONT_SCALE_DEN))


\* ------------------------------------------------------------------ texts
NoText == ""
TXT_GUIDANCE_FORMATS == "Please send a video file. Supported formats: MP4, MKV, AVI, MOV, WEBM, FLV, WMV, M4V, 3GP, TS, MTS"
TXT_GUIDANCE_KIND == "Please send a video file (as a direct video or a video document)."
TXT_DOWNLOADING == "Downloading video..."
TXT_DOWNLOAD_FAILED == "Failed to download the video."
TXT_APPLYING == "Downloaded. Applying watermarks..."
TXT_TRANSCODE_ERROR == "Error applying watermarks: FFmpeg execution failed. Stderr: <captured stderr>"
TXT_UPLOADING == "Watermarks applied. Uploading..."
TXT_SUCCESS == "Watermarked video uploaded successfully!"
TXT_UNEXPECTED == "An unexpected error occurred: <e>"

\* ------------------------------------------------------------------ files
\* What a path of ./downloads/ holds: nothing, the file a job downloaded ("raw"),
\* a transcoder output ("out", possibly cut short: "partial"), the fetched default
\* image ("asset").  by is the job that wrote it, audio whether it has an audio stream.
Absent == [kind |-> "absent", by |-> 0, audio |-> FALSE]
AssetFile == [kind |-> "asset", by |-> 0, audio |-> FALSE]
PartialAssetFile == [kind |-> "partial", by |-> 0, audio |-> FALSE]
RawFile(j, audio) == [kind |-> "raw", by |-> j, audio |-> audio]
OutFile(j, audio) == [kind |-> "out", by |-> j, audio |-> audio]
PartialOutFile(j) == [kind |-> "partial", by |-> j, audio |-> FALSE]
Exists(files, p) == files[p].kind # "absent"

\* ------------------------------------------------------------ filter graph
NoGraph == [built |-> FALSE, stages |-> << >>, target_width |-> 0, fontsize |-> 0,
            fontfile |-> 0, audio_mapped |-> FALSE, width |-> 0, height |-> 0]

\* possible_fonts, by position 1..4; FirstFont is the loop of lines 179-183
possible_fonts == 1..4
FirstFont(existing) == IF existing \cap possible_fonts = {} THEN 0
                       ELSE CHOOSE f \in existing \cap possible_fonts :
                                \A g \in existing \cap possible_fonts : f <= g

ImageStages == <<"scale", "format", "colorchannelmixer", "overlay">>

\* Whether ffmpeg.output is given an audio stream: main_video_input.audio is passed
\* whatever the input holds
AudioMapped(hasAudio) == TRUE

\* A graph builder without the os.path.exists test of line 142
BuildGraphAlwaysOverlay(video_width, video_height, imagePresent, existingFonts, hasAudio) ==
    [built |-> TRUE,
     stages |-> ImageStages \o <<"drawtext">>,
     target_width |-> TargetWidth(video_width),
     fontsize |-> DynamicFontSize(video_height),
     fontfile |-> FirstFont(existingFonts),
     audio_mapped |-> AudioMapped(hasAudio),
     width |-> video_width,
     height |-> video_height]
\* Lines 137-216: the graph built from the resolved dimensions, the presence of the
\* default image and the fonts installed
BuildGraph(video_width, video_height, imagePresent, existingFonts, hasAudio) ==
    [built |-> TRUE,
     stages |-> (IF imagePresent THEN ImageStages ELSE << >>) \o <<"drawtext">>,
     target_width |-> IF imagePresent THEN TargetWidth(video_width) ELSE 0,
     fontsize |-> DynamicFontSize(video_height),
     fontfile |-> FirstFont(existingFonts),
     audio_mapped |-> AudioMapped(hasAudio),
     width |-> video_width,
     height |-> video_height]

\* --------------------------------------------------------------- variables
VARIABLES
    pc,       \* pc[j]: the await job j's task is suspended at, or idle/returned/raised
    job,      \* job[j]: the handler's local variables, and what its steps did
    chat,     \* chat[j]: what the sender sees for job j
    fs,       \* fs[p]: what path p of ./downloads/ holds
    fonts,    \* the font files of possible_fonts that exist
    offered   \* what the environment may submit: jobs, file names, dimensions

vars == <<pc, job, chat, fs, fonts, offered>>

NoVideo == [sent |-> FALSE, content |-> Absent, duration |-> 0, width |-> 0, height |-> 0]
NoMeta == [probed |-> "none", duration |-> 0, width |-> 0, height |-> 0]

NewJob == [kind |-> "none", file_name |-> NoName, fetch |-> "none",
           video_width |-> 0, video_height |-> 0, has_audio |-> FALSE,
           status_message |-> FALSE, raised_at |-> "none", input_file_path |-> NoName, output_file_path |-> NoName,
           graph |-> NoGraph, in_probe |-> "none", transcode |-> "none", meta |-> NoMeta,
           rm_failed |-> {}, exit |-> "none"]
NewChat == [status |-> NoText, replies |-> {}, video |-> NoVideo]

\* Declared dimensions a direct video may carry (0 = not given)
BaseDims == {<<0, 0>>, <<1280, 0>>, <<1280, 720>>}
GridDims == {<<k * WidthStep, k * HeightStep>> : k \in 1..GridSize}
\* Video streams ffmpeg.probe may report: width/height keys present or missing
Missing == 0 - 1
ProbeStreams == {[width |-> 640, height |-> 360], [width |-> Missing, height |-> 360],
                 [width |-> 640, height |-> Missing]}
\* What ffmpeg.probe of an output may report: duration, and the video stream's size
\* (0, 0 when it lists no video stream)
OutputProbes == {[duration |-> 12, width |-> 1280, height |-> 720],
                 [duration |-> 12, width |-> 0, height |-> 0]}
FontSets == {{}, {2, 3}}

NoFiles == [p \in Paths |-> Absent]
CachedAsset == [NoFiles EXCEPT ![DEFAULT_IMAGE_WATERMARK_PATH] = AssetFile]

InitCommon ==
    /\ pc = [j \in Jobs |-> "idle"]
    /\ job = [j \in Jobs |-> NewJob]
    /\ chat = [j \in Jobs |-> NewChat]

\* Concurrent jobs on a process that has the default image cached: direct videos
\* of known size under few names, or messages that are no video ("other" is a
\* message with neither video nor document: the handler has the branch, lines 88-91)
Init ==
    /\ InitCommon
    /\ fs = CachedAsset
    /\ fonts = {2, 3}
    /\ offered = [jobs |-> Jobs,
                  media |-> {"video", "other"},
                  names |-> {NameA, NameWatermarkedA, DEFAULT_IMAGE_WATERMARK_PATH},
                  dims |-> {<<1280, 720>>},
                  audio |-> {TRUE},
                  streams |-> {[width |-> 640, height |-> 360]},
                  metas |-> {[duration |-> 12, width |-> 1280, height |-> 720]}]

\* One job at a time, on a fresh or a restarted process: every kind of message,
\* every name, declared dimensions known, unknown and sampled, every probe answer
InitJob ==
    /\ InitCommon
    /\ fs \in {NoFiles, CachedAsset}
    /\ fonts \in FontSets
    /\ offered = [jobs |-> {1},
                  media |-> {"video", "document", "other"},
                  names |-> SenderNames \cup {NoName},
                  dims |-> BaseDims \cup GridDims,
                  audio |-> BOOLEAN,
                  streams |-> ProbeStreams,
                  metas |-> OutputProbes]

\* ------------------------------------------------------------ classification
\* Lines 63-91: what the handler takes the message for
Classify(hasVideo, hasDocument, mimeIsVideo, file_name) ==
    IF hasVideo THEN "DirectVideo"
    ELSE IF hasDocument
         THEN IF mimeIsVideo \/ IsVideoByExtension(file_name) THEN "VideoDocument"
              ELSE "UnsupportedDocument"
         ELSE "UnsupportedOther"

GuidanceText(kind) == IF kind = "UnsupportedDocument" THEN TXT_GUIDANCE_FORMATS ELSE TXT_GUIDANCE_KIND

\* Lines 66-67 and 82-83: the dimensions known before the download; a document
\* has no width or height attribute
DeclaredDims(kind, dims) == IF kind = "DirectVideo" THEN dims ELSE <<0, 0>>

\* ------------------------------------------------------- dimension resolver
Get(value, default) == IF value = Missing THEN default ELSE value
NeedsProbe(video_width, video_height) == video_width = 0 \/ video_height = 0

\* A resolver without the except branch of lines 122-124
ResolveDimensionsProbeUnhandled(video_width, video_height, outcome, s) ==
    IF ~NeedsProbe(video_width, video_height) THEN <<video_width, video_height>>
    ELSE IF outcome = "stream"
         THEN <<Get(s.width, DEFAULT_WIDTH), Get(s.height, DEFAULT_HEIGHT)>>
    ELSE <<video_width, video_height>>
\* Lines 114-124.  outcome: what ffmpeg.probe did ("stream": streams holds a video
\* stream s; "nostream": it holds none; "raised": probe or the lookup raised)
ResolveDimensions(video_width, video_height, outcome, s) ==
    IF ~NeedsProbe(video_width, video_height) THEN <<video_width, video_height>>
    ELSE IF outcome = "stream"
         THEN <<Get(s.width, DEFAULT_WIDTH), Get(s.height, DEFAULT_HEIGHT)>>
    ELSE IF outcome = "raised" THEN <<DEFAULT_WIDTH, DEFAULT_HEIGHT>>
    ELSE <<video_width, video_height>>

\* What ffmpeg.probe of the downloaded file can do, as <<outcome, video stream>>;
\* it is not called ("skipped") when both dimensions are known
NoStream == [width |-> Missing, height |-> Missing]
ProbeResults(video_width, video_height) ==
    IF ~NeedsProbe(video_width, video_height) THEN {<<"skipped", NoStream>>}
    ELSE {<<"stream", s>> : s \in offered.streams} \cup {<<"nostream", NoStream>>, <<"raised", NoStream>>}

\* ---------------------------------------------------------------- plumbing
Suspend(j, at, jb, ch, files) ==
    /\ pc' = [pc EXCEPT ![j] = at]
    /\ job' = [job EXCEPT ![j] = jb]
    /\ chat' = [chat EXCEPT ![j] = ch]
    /\ fs' = files
    /\ UNCHANGED <<fonts, offered>>

\* Lines 268-277: the handler's `except Exception`, up to its await; raised_at
\* records the await or call whose exception was caught
Except(j, jb, ch, files) ==
    Suspend(j, IF jb.status_message THEN "err_edit" ELSE "err_reply",
            [jb EXCEPT !.raised_at = IF jb.transcode = "exception" /\ pc[j] = "edit_applying"
                                     THEN "transcode" ELSE pc[j]], ch, files)

\* os.remove on every path of files_to_clean that is set and exists; failures is
\* the set of paths on which os.remove raises OSError (logged, the file stays)
Removed(files, toClean, failures) ==
    [p \in Paths |-> IF p \in toClean /\ Exists(files, p) /\ p \notin failures
                     THEN Absent ELSE files[p]]

\* Line 279: files_to_clean
FilesToCleanInputOnly(jb) == {jb.input_file_path}
FilesToClean(jb) == {jb.input_file_path, jb.output_file_path}

\* Lines 278-286, then the handler is left: by return, or by the exception that
\* left the except block
Finish(j, how, jb, ch, files) ==
    LET toClean == {p \in FilesToClean(jb) : p # NoName /\ Exists(files, p)}
    IN  \E failures \in SUBSET toClean :
            /\ pc' = [pc EXCEPT ![j] = how]
            /\ job' = [job EXCEPT ![j] = [jb EXCEPT !.rm_failed = failures, !.exit = how]]
            /\ chat' = [chat EXCEPT ![j] = ch]
            /\ fs' = Removed(files, toClean, failures)
            /\ UNCHANGED <<fonts, offered>>

\* edit_text(text) answered: "ok" (the text is shown), "not_modified" (the
\* transport raises MessageNotModified: the message already shows this text, as
\* after a request that was applied and then resent), "error" (any other exception)
EditOutcomes == {"ok", "not_modified", "error"}
Shown(ch, text, outcome) == IF outcome \in {"ok", "not_modified"} THEN [ch EXCEPT !.status = text] ELSE ch

\* ------------------------------------------------------------------ actions
\* Lines 29-41: ensure_default_watermarks (no await inside: it runs to its end)
EnsureFetchOutcomes(files) ==
    IF Exists(files, DEFAULT_IMAGE_WATERMARK_PATH) THEN {"cached"} ELSE {"fetched", "failed", "failed_partial"}
ensure_default_watermarks(files, outcome) ==
    IF outcome = "fetched" THEN [files EXCEPT ![DEFAULT_IMAGE_WATERMARK_PATH] = AssetFile]
    ELSE IF outcome = "failed_partial" THEN [files EXCEPT ![DEFAULT_IMAGE_WATERMARK_PATH] = PartialAssetFile]
    ELSE files

\* A handler that provisions the default image before it classifies the message
ReceiveEnsureFirst(j) ==
    /\ pc[j] = "idle"
    /\ j \in offered.jobs
    /\ \E medium \in offered.media, mimeIsVideo \in BOOLEAN,
          file_name \in offered.names, dims \in offered.dims, fetch \in EnsureFetchOutcomes(fs) :
        LET kind == Classify(medium = "video", medium = "document", mimeIsVideo, file_name)
            d == DeclaredDims(kind, dims)
        IN  IF kind \in {"UnsupportedDocument", "UnsupportedOther"}
            THEN Suspend(j, "guidance", [job[j] EXCEPT !.kind = kind, !.fetch = fetch],
                         chat[j], ensure_default_watermarks(fs, fetch))
            ELSE Suspend(j, "reply_downloading",
                         [job[j] EXCEPT !.kind = kind, !.file_name = file_name, !.fetch = fetch,
                                        !.video_width = d[1], !.video_height = d[2]],
                         chat[j], ensure_default_watermarks(fs, fetch))
\* Lines 52-103: a message arrives; classification, then either the guidance
\* reply or ensure_default_watermarks and the "Downloading video..." reply
Receive(j) ==
    /\ pc[j] = "idle"
    /\ j \in offered.jobs
    /\ \E medium \in offered.media, mimeIsVideo \in BOOLEAN,
          file_name \in offered.names, dims \in offered.dims :
        LET kind == Classify(medium = "video", medium = "document", mimeIsVideo, file_name)
            d == DeclaredDims(kind, dims)
        IN  IF kind \in {"UnsupportedDocument", "UnsupportedOther"}
            THEN Suspend(j, "guidance", [job[j] EXCEPT !.kind = kind], chat[j], fs)
            ELSE \E fetch \in EnsureFetchOutcomes(fs) :
                        Suspend(j, "reply_downloading",
                                [job[j] EXCEPT !.kind = kind, !.file_name = file_name, !.fetch = fetch,
                                               !.video_width = d[1], !.video_height = d[2]],
                                chat[j], ensure_default_watermarks(fs, fetch))

\* Lines 86-87 and 90-91: the guidance reply is answered; outside the try block
GuidanceDone(j) ==
    /\ pc[j] = "guidance"
    /\ \/ /\ pc' = [pc EXCEPT ![j] = "returned"]
          /\ chat' = [chat EXCEPT ![j].replies = @ \cup {GuidanceText(job[j].kind)}]
          /\ job' = [job EXCEPT ![j].exit = "returned"]
       \/ /\ pc' = [pc EXCEPT ![j] = "raised"]
          /\ job' = [job EXCEPT ![j].exit = "raised"]
          /\ UNCHANGED chat
    /\ UNCHANGED <<fs, fonts, offered>>

\* Lines 103-105: the "Downloading video..." reply is answered, the download starts
ReplyDownloadingDone(j) ==
    /\ pc[j] = "reply_downloading"
    /\ \/ Suspend(j, "download", [job[j] EXCEPT !.status_message = TRUE],
                  [chat[j] EXCEPT !.status = TXT_DOWNLOADING], fs)
       \/ Except(j, job[j], chat[j], fs)

\* Lines 105-128: the download is answered; on a path, the dimensions are resolved
DownloadDone(j) ==
    /\ pc[j] = "download"
    /\ \/ \E audio \in offered.audio, r \in ProbeResults(job[j].video_width, job[j].video_height) :
            LET path == DownloadPath(j, job[j].file_name)
                d == ResolveDimensions(job[j].video_width, job[j].video_height, r[1], r[2])
            IN  Suspend(j, "edit_applying",
                        [job[j] EXCEPT !.input_file_path = path, !.in_probe = r[1], !.has_audio = audio,
                                       !.video_width = d[1], !.video_height = d[2]],
                        chat[j], [fs EXCEPT ![path] = RawFile(j, audio)])
       \/ Suspend(j, "edit_dlfail", job[j], chat[j], fs)
       \/ Except(j, job[j], chat[j], fs)

\* Lines 108-109: the "Failed to download" edit is answered (no MessageNotModified
\* handler around this one)
EditDownloadFailedDoneSilent(j) ==
    /\ pc[j] = "edit_dlfail"
    /\ Finish(j, "returned", job[j], chat[j], fs)
EditDownloadFailedDone(j) ==
    /\ pc[j] = "edit_dlfail"
    /\ \E o \in EditOutcomes :
        IF o = "ok" THEN Finish(j, "returned", job[j], Shown(chat[j], TXT_DOWNLOAD_FAILED, o), fs)
        ELSE Except(j, job[j], Shown(chat[j], TXT_DOWNLOAD_FAILED, o), fs)


\* ffmpeg run on the graph (line 220), a blocking call.  It can succeed only if the
\* input file is a whole media file, every mapped stream exists in it, and the
\* overlay image, when used, is a whole file.  "error" is ffmpeg.Error, "exception"
\* any other exception (the executable missing, ...)
CanTranscode(files, in, graph) ==
    /\ files[in].kind \in {"raw", "out"}
    /\ graph.audio_mapped => files[in].audio
    /\ Len(graph.stages) > 1 => files[DEFAULT_IMAGE_WATERMARK_PATH].kind # "partial"
TranscodeOutcomes(files, in, graph) ==
    (IF CanTranscode(files, in, graph) THEN {"ok"} ELSE {}) \cup {"error", "error_partial", "exception"}
Transcoded(files, j, in, out, outcome) ==
    IF outcome = "ok" THEN [files EXCEPT ![out] = OutFile(j, files[in].audio)]
    ELSE IF outcome = "error_partial" THEN [files EXCEPT ![out] = PartialOutFile(j)]
    ELSE files

\* Lines 127-233: the "Applying watermarks" edit is answered; the graph is built and
\* the transcoder runs; then the "Uploading" edit, or the diagnostic edit
EditApplyingDone(j) ==
    /\ pc[j] = "edit_applying"
    /\ \E o \in EditOutcomes :
        IF o = "error" THEN Except(j, job[j], chat[j], fs)
        ELSE LET in == job[j].input_file_path
                 out == OutputPath(in)
                 graph == BuildGraph(job[j].video_width, job[j].video_height,
                                     Exists(fs, DEFAULT_IMAGE_WATERMARK_PATH), fonts, fs[in].audio)
                 ch == Shown(chat[j], TXT_APPLYING, o)
             IN  \E t \in TranscodeOutcomes(fs, in, graph) :
                    LET jb == [job[j] EXCEPT !.output_file_path = out, !.graph = graph,
                                             !.transcode = IF t = "error_partial" THEN "error" ELSE t]
                        files == Transcoded(fs, j, in, out, t)
                    IN  IF t = "ok" THEN Suspend(j, "edit_uploading", jb, ch, files)
                        ELSE IF t = "exception" THEN Except(j, jb, ch, files)
                        ELSE Suspend(j, "edit_diag", jb, ch, files)

\* Lines 225-230: the diagnostic edit is answered; return
EditDiagnosticDoneNoReturn(j) ==
    /\ pc[j] = "edit_diag"
    /\ \E o \in EditOutcomes :
        IF o = "error" THEN Except(j, job[j], chat[j], fs)
        ELSE Suspend(j, "edit_uploading", job[j], Shown(chat[j], TXT_TRANSCODE_ERROR, o), fs)
EditDiagnosticDone(j) ==
    /\ pc[j] = "edit_diag"
    /\ \E o \in EditOutcomes :
        IF o = "error" THEN Except(j, job[j], chat[j], fs)
        ELSE Finish(j, "returned", job[j], Shown(chat[j], TXT_TRANSCODE_ERROR, o), fs)

\* ffmpeg.probe of the output (lines 241-249): the metadata read, or all zero when
\* anything raised
OutputMetas(files, out) ==
    (IF files[out].kind = "out" THEN {[probed |-> "ok", duration |-> m.duration, width |-> m.width,
                                       height |-> m.height] : m \in offered.metas} ELSE {})
    \cup {[probed |-> "failed", duration |-> 0, width |-> 0, height |-> 0]}

\* Lines 241-259: whatever the probe did, its exception is caught there and
\* reply_video is called with the metadata
AfterOutputProbeUncaught(j, meta, ch) ==
    IF meta.probed = "failed" THEN Except(j, [job[j] EXCEPT !.meta = meta], ch, fs)
    ELSE Suspend(j, "reply_video", [job[j] EXCEPT !.meta = meta], ch, fs)
AfterOutputProbe(j, meta, ch) ==
    Suspend(j, "reply_video", [job[j] EXCEPT !.meta = meta], ch, fs)

\* Lines 232-259: the "Uploading" edit is answered; the output is probed and
\* reply_video is called
EditUploadingDone(j) ==
    /\ pc[j] = "edit_uploading"
    /\ \E o \in EditOutcomes :
        IF o = "error" THEN Except(j, job[j], chat[j], fs)
        ELSE \E meta \in OutputMetas(fs, job[j].output_file_path) :
                AfterOutputProbe(j, meta, Shown(chat[j], TXT_UPLOADING, o))

\* Lines 252-263: reply_video is answered (it reads the output path while the task
\* is suspended); then the success edit
ReplyVideoDone(j) ==
    /\ pc[j] = "reply_video"
    /\ \/ /\ Exists(fs, job[j].output_file_path)
          /\ Suspend(j, "edit_done", job[j],
                     [chat[j] EXCEPT !.video = [sent |-> TRUE, content |-> fs[job[j].output_file_path],
                                                duration |-> job[j].meta.duration,
                                                width |-> job[j].meta.width,
                                                height |-> job[j].meta.height]], fs)
       \/ Except(j, job[j], chat[j], fs)

\* Lines 262-266, then `finally`: the success edit is answered
EditSuccessDone(j) ==
    /\ pc[j] = "edit_done"
    /\ \E o \in EditOutcomes :
        IF o = "error" THEN Except(j, job[j], chat[j], fs)
        ELSE Finish(j, "returned", job[j], Shown(chat[j], TXT_SUCCESS, o), fs)

\* Lines 270-275, then `finally`: the error edit of the except block is answered
ErrorEditDone(j) ==
    /\ pc[j] = "err_edit"
    /\ \E o \in EditOutcomes :
        Finish(j, IF o = "error" THEN "raised" ELSE "returned", job[j],
               Shown(chat[j], TXT_UNEXPECTED, o), fs)

\* Line 277, then `finally`: the error reply of the except block is answered
ErrorReplyDone(j) ==
    /\ pc[j] = "err_reply"
    /\ \/ Finish(j, "returned", job[j], [chat[j] EXCEPT !.replies = @ \cup {TXT_UNEXPECTED}], fs)
       \/ Finish(j, "raised", job[j], chat[j], fs)

Next ==
    \E j \in Jobs :
        \/ Receive(j)
        \/ GuidanceDone(j)
        \/ ReplyDownloadingDone(j)
        \/ DownloadDone(j)
        \/ EditDownloadFailedDone(j)
        \/ EditApplyingDone(j)
        \/ EditDiagnosticDone(j)
        \/ EditUploadingDone(j)
        \/ ReplyVideoDone(j)
        \/ EditSuccessDone(j)
        \/ ErrorEditDone(j)
        \/ ErrorReplyDone(j)

Spec == Init /\ [][Next]_vars
SpecJob == InitJob /\ [][Next]_vars


\* ================================================================== claims
Terminal(j) == pc[j] \in {"returned", "raised"}
Unfinished(j) == pc[j] \notin {"idle", "returned", "raised"}
\* The job called message.download: it did so as soon as its status message existed
EnteredDownload(j) == job[j].status_message
JobPaths(j) == {job[j].input_file_path, job[j].output_file_path} \ {NoName}
\* This step is the one in which job j's handler is left
Exits(j) == ~Terminal(j) /\ pc'[j] \in {"returned", "raised"}

\* C1 (as stated): once the handler of a job that entered the download stage has
\* been left, by any exit, neither its input path nor its output path exists.
C1_CleanupInvariant ==
    \A j \in Jobs : Terminal(j) /\ EnteredDownload(j) => \A p \in JobPaths(j) : ~Exists(fs, p)

\* C1 (amended): at the moment the handler of a job that entered the download
\* stage is left, by any exit, each of its input and output paths either does not
\* exist or is a path on which os.remove raised OSError during the cleanup.
C1_CleanupAtExit ==
    [][\A j \in Jobs : Exits(j) /\ EnteredDownload(j) =>
            \A p \in {job'[j].input_file_path, job'[j].output_file_path} \ {NoName} :
                Exists(fs', p) => p \in job'[j].rm_failed]_vars

\* C1 witness: a job transcoded and uploaded, returned, and both its files are gone.
C1_Witness ==
    \E j \in Jobs : /\ pc[j] = "returned" /\ chat[j].video.sent /\ job[j].rm_failed = {}
                    /\ job[j].output_file_path # NoName
                    /\ \A p \in JobPaths(j) : ~Exists(fs, p)

\* C2 (as stated): no job writes, overwrites or deletes a path that another
\* unfinished job is using as its input or output: in every step, the paths of an
\* unfinished job that does not take the step keep what they hold.
C2_PathsOwned ==
    [][\A k \in Jobs : Unfinished(k) /\ pc'[k] = pc[k] =>
            \A p \in JobPaths(k) : fs'[p] = fs[p]]_vars

\* C3 (as stated): whenever the filter graph is built, the resolved width and
\* height are positive, and when the dimensions were unknown and the probe gave no
\* usable video stream (none listed, or it raised) they are 720x480.
C3_ResolvedPositive ==
    \A j \in Jobs : job[j].graph.built =>
        /\ job[j].graph.width > 0 /\ job[j].graph.height > 0
        /\ job[j].in_probe \in {"nostream", "raised"} =>
                job[j].graph.width = DEFAULT_WIDTH /\ job[j].graph.height = DEFAULT_HEIGHT


\* C4 (as stated): if the transcoder exits with failure, the job ends with the
\* diagnostic status shown, both temporary files removed and no video reply sent.
C4_TranscodeFailure ==
    \A j \in Jobs : Terminal(j) /\ job[j].transcode = "error" =>
        /\ chat[j].status = TXT_TRANSCODE_ERROR
        /\ \A p \in JobPaths(j) : ~Exists(fs, p)
        /\ ~chat[j].video.sent

\* C4 (amended): if the transcoder exits with failure, no video reply is sent and
\* the upload stage is not entered; the diagnostic status is shown unless the
\* diagnostic edit itself raised an error other than MessageNotModified, in which
\* case the generic error edit is attempted (and shown when the handler returns);
\* and each temporary file is removed unless os.remove raised OSError on it.
C4_TranscodeFailureAttempts ==
    \A j \in Jobs : Terminal(j) /\ job[j].transcode = "error" =>
        /\ ~chat[j].video.sent
        /\ job[j].meta.probed = "none"
        /\ job[j].raised_at \in {"none", "edit_diag"}
        /\ job[j].raised_at = "none" => pc[j] = "returned" /\ chat[j].status = TXT_TRANSCODE_ERROR
        /\ job[j].raised_at = "edit_diag" /\ pc[j] = "returned" => chat[j].status = TXT_UNEXPECTED
        /\ \A p \in JobPaths(j) : Exists(fs, p) => p \in job[j].rm_failed

\* C4 witness: a transcoder failure ended with the diagnostic shown and no file left.
C4_Witness ==
    \E j \in Jobs : /\ pc[j] = "returned" /\ job[j].transcode = "error"
                    /\ chat[j].status = TXT_TRANSCODE_ERROR
                    /\ job[j].output_file_path # NoName
                    /\ \A p \in JobPaths(j) : ~Exists(fs, p)

FinalTexts == {TXT_SUCCESS, TXT_DOWNLOAD_FAILED, TXT_TRANSCODE_ERROR, TXT_UNEXPECTED}
GuidanceTexts == {TXT_GUIDANCE_FORMATS, TXT_GUIDANCE_KIND}
\* The sender sees a final message for job j: a final status, or a guidance or
\* error reply
FinalShown(j) ==
    \/ chat[j].status \in FinalTexts
    \/ chat[j].replies \cap (GuidanceTexts \cup {TXT_UNEXPECTED}) # {}

\* C5 (as stated): no execution of the handler ends with the sender seeing no
\* final message.
C5_NeverSilent == \A j \in Jobs : Terminal(j) => FinalShown(j)

\* C5 (amended): every execution of the handler that returns ends with a final
\* message shown; the handler ends without one only by the exception of its last
\* send: the guidance reply, or the error edit or reply of the except block.
C5_SilentOnlyWhenLastSendRaised ==
    \A j \in Jobs :
        /\ pc[j] = "returned" => FinalShown(j)
        /\ pc[j] = "raised" =>
              \/ job[j].kind \in {"UnsupportedDocument", "UnsupportedOther"}
              \/ job[j].raised_at # "none"

\* C5 witness: an unexpected failure ended with the generic error shown.
C5_Witness ==
    \E j \in Jobs : pc[j] = "returned" /\ job[j].raised_at = "reply_video"
                    /\ chat[j].status = TXT_UNEXPECTED

\* C6 (as stated): for an input without an audio stream the transcoder invocation
\* maps no audio output.
C6_AudioOmittedWhenAbsent ==
    \A j \in Jobs : job[j].graph.built /\ ~job[j].has_audio => ~job[j].graph.audio_mapped

ZeroMeta(m) == m.duration = 0 /\ m.width = 0 /\ m.height = 0

\* C7: a failed probe of the output does not abort the job: the step in which the
\* probe fails goes on to the reply_video call with duration, width and height 0,
\* and a video reply sent after a failed probe carries 0, 0, 0.
C7_OutputProbeFailureTolerated ==
    /\ [][\A j \in Jobs : job[j].meta.probed = "none" /\ job'[j].meta.probed = "failed" =>
              pc'[j] = "reply_video" /\ ZeroMeta(job'[j].meta)]_vars
    /\ [](\A j \in Jobs : job[j].meta.probed = "failed" /\ chat[j].video.sent =>
              ZeroMeta(chat[j].video))

\* C7 witness: the video was sent with zero metadata after the output probe failed.
C7_Witness ==
    \E j \in Jobs : /\ job[j].meta.probed = "failed" /\ job[j].transcode = "ok"
                    /\ chat[j].video.sent /\ ZeroMeta(chat[j].video)

\* C8 (as stated): for resolved width, height > 0 the font size is at least 18 and
\* equals max(18, round(height * 0.03)).
C8_FontSizeRounded ==
    \A j \in Jobs : job[j].graph.built /\ job[j].graph.width > 0 /\ job[j].graph.height > 0 =>
        /\ job[j].graph.fontsize >= MIN_FONT_SIZE
        /\ job[j].graph.fontsize = Max(MIN_FONT_SIZE, Round(job[j].graph.height, FONT_SCALE_NUM, FONT_SCALE_DEN))

\* C8 (amended): for resolved width, height > 0 the font size is at least 18 and
\* equals max(18, floor(height * 0.03)): the product is truncated, not rounded.
\* Stated without the truncation operator: f is the integer with
\* 100 f <= max(1800, 3 height) < 100 (f + 1).
C8_FontSizeTruncated ==
    \A j \in Jobs : job[j].graph.built /\ job[j].graph.width > 0 /\ job[j].graph.height > 0 =>
        LET f == job[j].graph.fontsize
            m == Max(FONT_SCALE_DEN * MIN_FONT_SIZE, FONT_SCALE_NUM * job[j].graph.height)
        IN  /\ f >= MIN_FONT_SIZE
            /\ FONT_SCALE_DEN * f <= m
            /\ m < FONT_SCALE_DEN * (f + 1)

\* C8 witness: a font size above the floor, for a height whose 3% has a fraction
\* of at least one half.
C8_Witness ==
    \E j \in Jobs : /\ job[j].graph.built /\ job[j].graph.width > 0
                    /\ job[j].graph.fontsize > MIN_FONT_SIZE
                    /\ 2 * ((FONT_SCALE_NUM * job[j].graph.height) % FONT_SCALE_DEN) >= FONT_SCALE_DEN

ImageStagePresent(g) == g.built /\ Len(g.stages) > 1

\* C9 (as stated): with the image present the target width is at least 50 and
\* equals max(50, round(width * 0.1)).
C9_TargetWidthRounded ==
    \A j \in Jobs : ImageStagePresent(job[j].graph) =>
        /\ job[j].graph.target_width >= MIN_IMAGE_WIDTH
        /\ job[j].graph.target_width = Max(MIN_IMAGE_WIDTH, Round(job[j].graph.width, IMAGE_SCALE_NUM, IMAGE_SCALE_DEN))

\* C9 (amended): with the image present the target width is at least 50 and equals
\* max(50, floor(width * 0.1)): t is the integer with 10 t <= max(500, width) < 10 (t + 1).
C9_TargetWidthTruncated ==
    \A j \in Jobs : ImageStagePresent(job[j].graph) =>
        LET t == job[j].graph.target_width
            m == Max(IMAGE_SCALE_DEN * MIN_IMAGE_WIDTH, IMAGE_SCALE_NUM * job[j].graph.width)
        IN  /\ t >= MIN_IMAGE_WIDTH
            /\ IMAGE_SCALE_DEN * t <= m
            /\ m < IMAGE_SCALE_DEN * (t + 1)

\* C9 witness: a target width above the floor, for a width whose tenth has a
\* fraction above one half.
C9_Witness ==
    \E j \in Jobs : /\ ImageStagePresent(job[j].graph)
                    /\ job[j].graph.target_width > MIN_IMAGE_WIDTH
                    /\ 2 * ((IMAGE_SCALE_NUM * job[j].graph.width) % IMAGE_SCALE_DEN) > IMAGE_SCALE_DEN

\* A direct video that declared 1280x720: both known, so the probe was skipped
Declared1280x720(j) ==
    /\ job[j].kind = "DirectVideo" /\ job[j].in_probe = "skipped"
    /\ job[j].video_width = 1280 /\ job[j].video_height = 720

\* C10: for a direct video declared 1280x720 with the image present, the image
\* target width is 128 and the font size is 21.
C10_Scenario1280x720 ==
    \A j \in Jobs : Declared1280x720(j) /\ ImageStagePresent(job[j].graph) =>
        /\ job[j].graph.width = 1280 /\ job[j].graph.height = 720
        /\ job[j].graph.target_width = 128
        /\ job[j].graph.fontsize = 21

\* C10 witness: such a job built its graph with the image stage.
C10_Witness ==
    \E j \in Jobs : /\ Declared1280x720(j) /\ ImageStagePresent(job[j].graph)
                    /\ job[j].graph.target_width = 128 /\ job[j].graph.fontsize = 21

\* A video document (it declares no dimensions) whose input probe raised
DocumentProbeRaised(jb) == jb.kind = "VideoDocument" /\ jb.in_probe = "raised"

\* C11: for a video document whose input probe raises, the step in which the
\* probe raises resolves the dimensions to 720x480 and goes on to the "Applying
\* watermarks" edit instead of the except block; a graph built afterwards has
\* 720x480 and font size 18.
C11_ProbeFailureFallsBack ==
    /\ [][\A j \in Jobs : pc[j] = "download" /\ DocumentProbeRaised(job'[j]) =>
              /\ pc'[j] = "edit_applying" /\ job'[j].raised_at = "none"
              /\ job'[j].video_width = 720 /\ job'[j].video_height = 480]_vars
    /\ [](\A j \in Jobs : DocumentProbeRaised(job[j]) /\ job[j].graph.built =>
              /\ job[j].graph.width = 720 /\ job[j].graph.height = 480
              /\ job[j].graph.fontsize = 18)

\* C11 witness: after the probe of a video document raised, the transcoder ran on
\* a 720x480 graph with font size 18 and succeeded.
C11_Witness ==
    \E j \in Jobs : /\ DocumentProbeRaised(job[j]) /\ job[j].transcode = "ok"
                    /\ job[j].graph.width = 720 /\ job[j].graph.fontsize = 18

\* This step is the one in which job j builds its filter graph
BuildsGraph(j) == ~job[j].graph.built /\ job'[j].graph.built
\* The number of positions of stages that hold the stage named name
Count(stages, name) == Cardinality({i \in 1..Len(stages) : stages[i] = name})

\* C12: a graph built while the default image file does not exist consists of the
\* draw-text stage alone (no scale, format, opacity or overlay stage), and every
\* graph built holds the draw-text stage exactly once, as its last stage.
C12_TextOnlyWithoutImage ==
    [][\A j \in Jobs : BuildsGraph(j) =>
            LET stages == job'[j].graph.stages
            IN  /\ ~Exists(fs, DEFAULT_IMAGE_WATERMARK_PATH) =>
                      /\ stages = <<"drawtext">>
                      /\ \A i \in 1..Len(ImageStages) : Count(stages, ImageStages[i]) = 0
                /\ Count(stages, "drawtext") = 1
                /\ stages[Len(stages)] = "drawtext"]_vars

\* C12 witness: a text-only graph was built with no image file, and the transcoder
\* succeeded on it.
C12_Witness ==
    \E j \in Jobs : /\ job[j].graph.built /\ job[j].graph.stages = <<"drawtext">>
                    /\ job[j].transcode = "ok"
                    /\ ~Exists(fs, DEFAULT_IMAGE_WATERMARK_PATH)

\* ensure_default_watermarks caught an exception of urlretrieve for job j
FetchFailed(jb) == jb.fetch \in {"failed", "failed_partial"}

\* C13 (as stated): after a failed fetch of the default image the handler proceeds
\* without the image mark: the graph it builds is text-only, and what it uploads
\* is a whole transcoder output.  (Jobs whose own input file bears the name of the
\* image file are left out: what they do to that path is the matter of C17.)
C13_FetchFailureTolerated ==
    \A j \in Jobs : FetchFailed(job[j]) /\ job[j].input_file_path # DEFAULT_IMAGE_WATERMARK_PATH =>
        /\ job[j].graph.built => job[j].graph.stages = <<"drawtext">>
        /\ chat[j].video.sent => chat[j].video.content.kind = "out"

\* The awaits that are status updates, and the text each one sets
EditAwaits == {"edit_dlfail", "edit_applying", "edit_diag", "edit_uploading", "edit_done", "err_edit"}
EditText(at) ==
    CASE at = "edit_dlfail" -> TXT_DOWNLOAD_FAILED
      [] at = "edit_applying" -> TXT_APPLYING
      [] at = "edit_diag" -> TXT_TRANSCODE_ERROR
      [] at = "edit_uploading" -> TXT_UPLOADING
      [] at = "edit_done" -> TXT_SUCCESS
      [] OTHER -> TXT_UNEXPECTED

\* C14 (as stated): a status update after which the message shows the update's
\* text (it was applied, or it was answered "not modified" because the message
\* showed that text already) is never treated as an error: the job does not enter
\* the except block for it, and the handler is not left by an exception of it.
C14_StatusUpdateIdempotent ==
    [][\A j \in Jobs : pc[j] \in EditAwaits /\ chat'[j].status = EditText(pc[j]) =>
            /\ job'[j].raised_at # pc[j]
            /\ pc'[j] # "raised"]_vars

Unsupported(jb) == jb.kind \in {"UnsupportedDocument", "UnsupportedOther"}

\* C15: a message classified as unsupported only gets the guidance reply: its job
\* waits for that reply and then is over; it never provisions the default image,
\* creates no status message, downloads nothing, builds no graph, runs no
\* transcoder, sends no video, and no step of it changes any file; when the
\* handler returns the guidance text of its kind is the one reply sent.
C15_UnsupportedIsTerminal ==
    /\ [](\A j \in Jobs : Unsupported(job[j]) =>
              /\ pc[j] \in {"guidance", "returned", "raised"}
              /\ job[j].fetch = "none" /\ ~job[j].status_message
              /\ job[j].input_file_path = NoName /\ job[j].output_file_path = NoName
              /\ ~job[j].graph.built /\ job[j].transcode = "none"
              /\ ~chat[j].video.sent /\ chat[j].status = NoText
              /\ chat[j].replies \subseteq {GuidanceText(job[j].kind)}
              /\ pc[j] = "returned" => chat[j].replies = {GuidanceText(job[j].kind)})
    /\ [][\A j \in Jobs : Unsupported(job'[j]) /\ pc'[j] # pc[j] => fs' = fs]_vars

\* C15 witness: on a process that never fetched the default image, a document
\* that is no video was answered with the format guidance, and no file exists.
C15_Witness ==
    \E j \in Jobs : /\ pc[j] = "returned" /\ job[j].kind = "UnsupportedDocument"
                    /\ chat[j].replies = {TXT_GUIDANCE_FORMATS}
                    /\ fs = NoFiles

\* Job k's task is suspended at an await of the transport
SuspendedAtIO(k) == Unfinished(k)
\* The transcoder run of a job has returned (with any result)
TranscoderReturned(jb) == jb.transcode # "none"

\* C16 (as stated): the transcoder run is a point at which the loop can resume
\* other tasks: a step in which a job invokes the transcoder while another job is
\* suspended at an await ends before the transcoder has returned, so that the other
\* job can take steps between the invocation and the return.
C16_LoopRunsDuringTranscode ==
    [][\A j, k \in Jobs : j # k /\ SuspendedAtIO(k) /\ BuildsGraph(j) =>
            ~TranscoderReturned(job'[j])]_vars

\* C17 (as stated): once the default image file exists, no step of any job writes,
\* overwrites or removes it: what its path holds never changes again.
C17_AssetWriteOnce ==
    [][Exists(fs, DEFAULT_IMAGE_WATERMARK_PATH) =>
            fs'[DEFAULT_IMAGE_WATERMARK_PATH] = fs[DEFAULT_IMAGE_WATERMARK_PATH]]_vars

\* message.download of job j returned no path: the job waits for the
\* download-failure edit, or it went on from there (it has a status message, no
\* input path, and it is not the download call itself that is pending or raised)
DownloadReturnedEmpty(j) ==
    \/ pc[j] = "edit_dlfail"
    \/ /\ job[j].status_message /\ job[j].input_file_path = NoName
       /\ pc[j] # "download" /\ job[j].raised_at # "download"

\* Nothing after the download check was done for job j
NothingProcessed(j) ==
    /\ job[j].in_probe = "none" /\ ~job[j].graph.built /\ job[j].transcode = "none"
    /\ job[j].meta.probed = "none" /\ ~chat[j].video.sent

\* C18 (as stated): a job whose download returned no path ends with the
\* download-failure text as its status, and with no dimension probe, transcoder
\* run or video reply.
C18_EmptyDownloadFails ==
    \A j \in Jobs : Terminal(j) /\ DownloadReturnedEmpty(j) =>
        chat[j].status = TXT_DOWNLOAD_FAILED /\ NothingProcessed(j)

\* C18 (amended): for a job whose download returned no path there is never a
\* dimension probe, a transcoder run or a video reply, and the only thing it does
\* next is the download-failure edit; it ends with the download-failure text as
\* its status if that edit succeeded, and otherwise (the edit raised, be it
\* MessageNotModified) the generic error edit is attempted, whose text is the
\* status when the handler returns.
C18_EmptyDownloadFailsAttempts ==
    \A j \in Jobs : DownloadReturnedEmpty(j) =>
        /\ NothingProcessed(j)
        /\ pc[j] \in {"edit_dlfail", "err_edit", "returned", "raised"}
        /\ job[j].raised_at \in {"none", "edit_dlfail"}
        /\ Terminal(j) /\ job[j].raised_at = "none" =>
              pc[j] = "returned" /\ chat[j].status = TXT_DOWNLOAD_FAILED
        /\ pc[j] = "returned" /\ job[j].raised_at = "edit_dlfail" => chat[j].status = TXT_UNEXPECTED

\* C18 witness: a job whose download returned no path returned with the
\* download-failure text shown and nothing processed.
C18_Witness ==
    \E j \in Jobs : /\ pc[j] = "returned" /\ DownloadReturnedEmpty(j)
                    /\ job[j].raised_at = "none"
                    /\ chat[j].status = TXT_DOWNLOAD_FAILED /\ NothingProcessed(j)

\* The stages of a job, by the await its task is suspended at: Received ("idle",
\* then "reply_downloading": the status message is being created), Downloading
\* ("download"), Downloaded ("edit_applying"), Processing and Processed (the
\* transcoder run, inside the step that leaves "edit_applying" for
\* "edit_uploading"), Uploading ("reply_video"), Completed ("edit_done", then
\* "returned"); Failed is "edit_dlfail", "edit_diag", "err_edit", "err_reply" and
\* the exits they lead to; "guidance" is the rejection of an unsupported message.
\* StageSuccessors(at): where a job may be next.
StageSuccessors(at) ==
    CASE at = "idle" -> {"reply_downloading", "guidance"}
      [] at = "guidance" -> {"returned", "raised"}
      [] at = "reply_downloading" -> {"download", "err_reply"}
      [] at = "download" -> {"edit_applying", "edit_dlfail", "err_edit"}
      [] at = "edit_applying" -> {"edit_uploading", "edit_diag", "err_edit"}
      [] at = "edit_uploading" -> {"reply_video", "err_edit"}
      [] at = "reply_video" -> {"edit_done", "err_edit"}
      [] at = "edit_done" -> {"returned", "err_edit"}
      [] at \in {"edit_dlfail", "edit_diag"} -> {"returned", "err_edit"}
      [] at \in {"err_edit", "err_reply"} -> {"returned", "raised"}
      [] OTHER -> {}

\* C19: a job changes stage only to the next stage of the order, or to Failed; the
\* transcoder runs at most once, in the step that leaves Downloaded, on an input
\* path that was downloaded; the video reply is sent at most once, in the step
\* that leaves Uploading, after the transcoder succeeded; and a job that is
\* Completed or Failed (its handler was left) does nothing more.
C19_StageOrder ==
    [][\A j \in Jobs :
          /\ pc'[j] # pc[j] => pc'[j] \in StageSuccessors(pc[j])
          /\ BuildsGraph(j) \/ (~TranscoderReturned(job[j]) /\ TranscoderReturned(job'[j])) =>
                /\ pc[j] = "edit_applying"
                /\ job[j].input_file_path # NoName
                /\ pc'[j] = "edit_uploading" <=> job'[j].transcode = "ok"
          /\ TranscoderReturned(job[j]) =>
                job'[j].transcode = job[j].transcode /\ job'[j].graph = job[j].graph
          /\ ~chat[j].video.sent /\ chat'[j].video.sent =>
                pc[j] = "reply_video" /\ job[j].transcode = "ok"
          /\ chat[j].video.sent => chat'[j].video = chat[j].video
          /\ Terminal(j) => pc'[j] = pc[j] /\ job'[j] = job[j] /\ chat'[j] = chat[j]]_vars

\* C19 witness: a job went through every stage and is Completed.
C19_Witness ==
    \E j \in Jobs : /\ pc[j] = "returned" /\ chat[j].status = TXT_SUCCESS
                    /\ chat[j].video.sent /\ job[j].transcode = "ok"
                    /\ job[j].raised_at = "none"

ErrorTexts == {TXT_TRANSCODE_ERROR, TXT_UNEXPECTED}

\* C20 (as stated): no job both delivers the watermarked video reply and shows an
\* error status (the transcoder diagnostic or the unexpected-error text).
C20_OutcomesExclusive ==
    \A j \in Jobs : ~(chat[j].video.sent /\ chat[j].status \in ErrorTexts)

====
